---- MODULE Spec2Model ----
(***************************************************************************)
(* A model of DeepLinker (src/src/navigation/deep-linker.ts): the history *)
(* buffer, the reaction to location changes of the host, the reaction to  *)
(* settled navigations of the application, and the reconciliation of the  *)
(* controller tree with the parsed path.                                   *)
(*                                                                         *)
(* A string is a sequence of one-character strings, so that trim, charAt  *)
(* and substr are computed and not assumed.                                *)
(***************************************************************************)
EXTENDS Integers, Sequences, FiniteSets, TLC

\* ------------------------------------------------------------------ bounds
\* longest input string given to normalizeUrl in SpecNorm
MaxLen == 3

\* ----------------------------------------------------------------- strings
Chars == {"/", " ", "a"}

RECURSIVE StringsUpTo(_)
StringsUpTo(n) ==
  IF n = 0 THEN {<<>>}
  ELSE LET shorter == StringsUpTo(n - 1)
       IN  shorter \cup {Append(s, c) : s \in {t \in shorter : Len(t) = n - 1}, c \in Chars}

\* String.prototype.trim: white space is removed at both ends only
RECURSIVE TrimLeft(_)
TrimLeft(s) == IF s # <<>> /\ Head(s) = " " THEN TrimLeft(Tail(s)) ELSE s

RECURSIVE TrimRight(_)
TrimRight(s) ==
  IF s # <<>> /\ s[Len(s)] = " " THEN TrimRight(SubSeq(s, 1, Len(s) - 1)) ELSE s

Trim(s) == TrimRight(TrimLeft(s))

\* the first step of normalizeUrl: a "/" is put in front unless one is there
EnsureLeadingSlash(s) == IF s = <<>> \/ Head(s) # "/" THEN <<"/">> \o s ELSE s

\* the second step of normalizeUrl: one trailing "/" is cut off, never the root's
StripTrailingSlash(s) ==
  IF Len(s) > 1 /\ s[Len(s)] = "/" THEN SubSeq(s, 1, Len(s) - 1) ELSE s

normalizeUrl(browserUrl) == StripTrailingSlash(EnsureLeadingSlash(Trim(browserUrl)))

\* ------------------------------------------------------------ the history
\* the length past which _historyPush drops the oldest entry
HistoryMax == 30

\* what reading an array past its ends gives: equal to no string
Undefined == <<"undefined">>

HistAt(h, i) == IF i \in 1..Len(h) THEN h[i] ELSE Undefined

\* isBackUrl with a fault: one entry too far down
isBackUrlThird(h, browserUrl) == browserUrl = HistAt(h, Len(h) - 2)

isBackUrl(h, browserUrl) == browserUrl = HistAt(h, Len(h) - 1)

\* isCurrentUrl with a fault: the index is the length, one past the top
isCurrentUrlPastEnd(h, browserUrl) == browserUrl = HistAt(h, Len(h) + 1)

isCurrentUrl(h, browserUrl) == browserUrl = HistAt(h, Len(h))

\* historyPush with a fault: the oldest entry is never dropped
historyPushNoShift(h, browserUrl) ==
  IF ~isCurrentUrl(h, browserUrl) THEN Append(h, browserUrl) ELSE h

\* historyPush with a fault: the url is appended even when it is the top
historyPushAlways(h, browserUrl) ==
  LET p == Append(h, browserUrl)
  IN  IF Len(p) > HistoryMax THEN Tail(p) ELSE p

historyPush(h, browserUrl) ==
  IF ~isCurrentUrl(h, browserUrl)
  THEN LET p == Append(h, browserUrl)
       IN  IF Len(p) > HistoryMax THEN Tail(p) ELSE p
  ELSE h

\* historyPop with a fault: an emptied history is left empty
historyPopNoSeed(h, path) == SubSeq(h, 1, Len(h) - 1)

\* historyPop with a fault: the entry below the top is removed with the top
historyPopTwo(h, path) ==
  LET p == SubSeq(h, 1, IF Len(h) >= 2 THEN Len(h) - 2 ELSE 0)
  IN  IF Len(p) = 0 THEN historyPush(p, path) ELSE p

\* path is what location.path() returns when the history has been emptied
historyPop(h, path) ==
  LET p == SubSeq(h, 1, Len(h) - 1)
  IN  IF Len(p) = 0 THEN historyPush(p, path) ELSE p

\* ---------------------------------------------------------- the serializer
\* The url serializer is a collaborator (url-serializer.ts); it is modelled by
\* its contract: a url is "/" followed by the segments' ids joined by "/".
NoNav == "none"
NoComp == "null"

\* the registered links: a page's component, name and url part are one letter
Links == {"a", "b", "p", "c", "q"}

Segment(part) ==
  [id    |-> part,
   name  |-> part,
   comp  |-> IF Len(part) = 1 /\ part[1] \in Links THEN part[1] ELSE NoComp,
   navId |-> NoNav]

\* "a/b" split at "/" gives <<"a", "b">>; "" gives one empty part
RECURSIVE SplitSlash(_)
SplitSlash(s) ==
  IF \A i \in 1..Len(s) : s[i] # "/"
  THEN <<s>>
  ELSE LET k == CHOOSE i \in 1..Len(s) : s[i] = "/" /\ \A j \in 1..(i - 1) : s[j] # "/"
       IN  <<SubSeq(s, 1, k - 1)>> \o SplitSlash(SubSeq(s, k + 1, Len(s)))

parse(browserUrl) ==
  LET body  == IF browserUrl # <<>> /\ Head(browserUrl) = "/" THEN Tail(browserUrl) ELSE browserUrl
      parts == SplitSlash(body)
  IN  [i \in 1..Len(parts) |-> Segment(parts[i])]

RECURSIVE JoinIds(_)
JoinIds(path) ==
  IF path = <<>> THEN <<>>
  ELSE IF Len(path) = 1 THEN path[1].id
  ELSE path[1].id \o <<"/">> \o JoinIds(Tail(path))

serialize(path) == <<"/">> \o JoinIds(path)

\* null when the component is not a registered link
serializeComponent(comp) == IF comp \in Links THEN <<Segment(<<comp>>)>> ELSE <<>>

\* ------------------------------------------------------ the controller tree
\* n0 is the application's root nav; n1 is the nav hosted by page "p" of n0;
\* ts is the tab container hosted by page "q" of n0, t0 and t1 are its tabs
Navs == {"n0", "n1", "ts", "t0", "t1"}

\* Tabs._tabs, in order: the tab of index i is TabNavs[i + 1]
TabNavs == <<"t0", "t1">>

isTabs(nav) == nav = "ts"
isTab(nav) == nav \in {"t0", "t1"}
\* a controller that has push: a nav or a tab, not the tab container
isNav(nav) == nav \in {"n0", "n1", "t0", "t1"}

Parent(nav) ==
  IF nav \in {"n1", "ts"} THEN "n0"
  ELSE IF isTab(nav) THEN "ts"
  ELSE NoNav

HostsChild(comp) == comp = "p"
HostsTabs(comp) == comp = "q"

\* the page a nav shows when no segment is attributed to it
RootPage(nav) ==
  IF nav \in {"n0", "t0"} THEN "a"
  ELSE IF nav = "t1" THEN "b"
  ELSE "c"

\* the id the nav gives a view that was not pushed by the deep linker
DigitChars == <<"1", "2", "3", "4", "5", "6", "7", "8", "9">>
OwnViewId(k) == <<"#", DigitChars[k]>>

View(id, comp) == [id |-> id, comp |-> comp]

Top(stack) == stack[Len(stack)]

\* --------------------------------------------------------------- variables
VARIABLES
  inited,        \* init() has run
  history,       \* DeepLinker._history
  segments,      \* DeepLinker._segments
  indexAliasUrl, \* DeepLinker._indexAliasUrl, Undefined when not known
  rootUp,        \* the application's root nav exists
  stacks,        \* the views of each nav, oldest first
  pending,       \* per nav, the transitions queued and not yet completed
  ev,            \* the handler that ran last, its input and the branch it took
  locCalls,      \* the calls the last handler made on the host's location
  navOps,        \* the operations the last handler issued on controllers
  tabConf,       \* the tabs of the tab container: tabUrlPath, tabTitle, index
  fnIn,     \* function harness: the input of the function applied
  fnOut,    \* function harness: what it returned
  fnPc,     \* function harness: "off", or the function that is next or was applied
  nIn,      \* normalizeUrl harness: the input string
  nFirst,   \* normalizeUrl harness: normalizeUrl(nIn)
  nOut,     \* normalizeUrl harness: the result of the latest application
  nPc       \* normalizeUrl harness: "in", "once", "twice"

normVars == <<nIn, nFirst, nOut, nPc>>

fnVars == <<fnIn, fnOut, fnPc>>

linkVars == <<inited, history, segments, indexAliasUrl, rootUp, stacks, pending,
              ev, locCalls, navOps, tabConf>>

vars == <<inited, history, segments, indexAliasUrl, rootUp, stacks, pending,
          ev, locCalls, navOps, tabConf, nIn, nFirst, nOut, nPc, fnIn, fnOut, fnPc>>

\* ----------------------------------------------------------------- bounds
\* the longest history at which the model still delivers an event (Spec only)
MaxHist == 2
\* the most views a stack may hold, queued pushes included
MaxStack == 2
\* the most transitions queued at once over all navs
MaxPending == 1

Min(S) == CHOOSE x \in S : \A y \in S : x <= y
Max(S) == CHOOSE x \in S : \A y \in S : x >= y

\* ----------------------------------------------------------------- the tabs
\* a tab of the tab container; tabUrlPath and tabTitle are Undefined when
\* the application has not set them
Tab(tabUrlPath, tabTitle, index) ==
  [tabUrlPath |-> tabUrlPath, tabTitle |-> tabTitle, index |-> index]

isPresent(val) == val # Undefined

\* UrlSerializer.formatUrlPart: lower case, white space becomes a dash
FormatChar(c) == IF c = " " THEN "-" ELSE IF c = "T" THEN "t" ELSE c
formatUrlPart(name) == [i \in 1..Len(name) |-> FormatChar(name[i])]

Digits == {"0", "1", "2"}
DigitValue(c) == IF c = "0" THEN 0 ELSE IF c = "1" THEN 1 ELSE 2

\* parseInt(ds, 10) of a run of digits
RECURSIVE ParseInt(_)
ParseInt(ds) ==
  IF ds = <<>> THEN 0
  ELSE ParseInt(SubSeq(ds, 1, Len(ds) - 1)) * 10 + DigitValue(ds[Len(ds)])

\* the digits of name from position i on, as far as they go
RECURSIVE DigitRun(_, _)
DigitRun(name, i) ==
  IF i > Len(name) \/ name[i] \notin Digits THEN <<>>
  ELSE <<name[i]>> \o DigitRun(name, i + 1)

\* where /tab-(\d+)/ matches in name: the pattern is not anchored
TabIndexMatches(name) ==
  {i \in 1..(Len(name) - 4) :
     /\ name[i] = "t" /\ name[i + 1] = "a" /\ name[i + 2] = "b" /\ name[i + 3] = "-"
     /\ name[i + 4] \in Digits}

\* `tab-${tab.index}`
TabIndexName(index) == <<"t", "a", "b", "-">> \o <<CHOOSE d \in Digits : DigitValue(d) = index>>

getTabSelector(tab) ==
  IF isPresent(tab.tabUrlPath) THEN tab.tabUrlPath
  ELSE IF isPresent(tab.tabTitle) THEN formatUrlPart(tab.tabTitle)
  ELSE TabIndexName(tab.index)

\* the index of the tab pathName selects among tabs (tabsNav._tabs, in order)
getSelectedTabIndex(tabs, pathName, fallbackIndex) ==
  LET indexMatch == TabIndexMatches(pathName)
  IN  IF indexMatch # {}
      THEN ParseInt(DigitRun(pathName, Min(indexMatch) + 4))
      ELSE LET found == {i \in 1..Len(tabs) :
                 \/ isPresent(tabs[i].tabUrlPath) /\ tabs[i].tabUrlPath = pathName
                 \/ isPresent(tabs[i].tabTitle) /\ formatUrlPart(tabs[i].tabTitle) = pathName}
           IN  IF found # {} THEN tabs[Min(found)].index ELSE fallbackIndex

\* two tabs the application has given neither tabUrlPath nor tabTitle
PlainTabs == <<Tab(Undefined, Undefined, 0), Tab(Undefined, Undefined, 1)>>

\* ------------------------------------------------------------ tree queries
\* NavController.getActiveChildNav: n1 is there while page "p" is n0's top
\* view, ts while page "q" is; the active child of ts is the selected tab,
\* which stk["ts"] holds
getActiveChildNav(nav, stk) ==
  IF nav = "n0" /\ stk["n0"] # <<>> /\ HostsChild(Top(stk["n0"]).comp) THEN "n1"
  ELSE IF nav = "n0" /\ stk["n0"] # <<>> /\ HostsTabs(Top(stk["n0"]).comp) THEN "ts"
  ELSE IF nav = "ts" /\ stk["ts"] # <<>> THEN Top(stk["ts"])
  ELSE NoNav

getRootNav(up) == IF up THEN "n0" ELSE NoNav

\* the innermost nav below nav that is being viewed
RECURSIVE Innermost(_, _)
Innermost(nav, stk) ==
  IF getActiveChildNav(nav, stk) = NoNav THEN nav
  ELSE Innermost(getActiveChildNav(nav, stk), stk)

\* App.getActiveNav: the innermost nav being viewed
getActiveNav(up, stk) == IF ~up THEN NoNav ELSE Innermost("n0", stk)

QueuedPushes(q) == Cardinality({i \in 1..Len(q) : q[i].op = "push"})

PendingTotal(pend) ==
  Len(pend["n0"]) + Len(pend["n1"]) + Len(pend["ts"]) + Len(pend["t0"]) + Len(pend["t1"])

\* ----------------------------------------------------------------- initNav
\* initNav with a fault: the last segment that fits is taken
initNavLast(nav, path) ==
  IF nav = NoNav \/ path = <<>> THEN 0
  ELSE IF Parent(nav) = NoNav THEN 1
  ELSE LET hits == {i \in 2..Len(path) : path[i - 1].navId = Parent(nav)}
       IN  IF hits = {} THEN 0 ELSE Max(hits)

\* the index of the segment attributed to nav, 0 for null
initNav(nav, path) ==
  IF nav = NoNav \/ path = <<>> THEN 0
  ELSE IF Parent(nav) = NoNav THEN 1
  ELSE LET hits == {i \in 2..Len(path) : path[i - 1].navId = Parent(nav)}
       IN  IF hits = {} THEN 0 ELSE Min(hits)

\* the path after initNav(nav): the attributed segment carries nav's id
initNavPath(nav, path) ==
  LET i == initNav(nav, path)
  IN  IF i = 0 THEN path ELSE [path EXCEPT ![i].navId = nav]

\* ------------------------------------------------------------ _pathFromNavs
\* the segments from nav up to the root, innermost first; the walk ends at
\* the first nav whose active view serializes to nothing
\* the extra segment of a tab: its selector, no component
TabSegment(tabSelector) ==
  [id |-> tabSelector, name |-> tabSelector, comp |-> NoComp, navId |-> NoNav]

\* the tab whose controller is nav
TabOf(nav) == tabConf[IF nav = "t0" THEN 1 ELSE 2]

\* the walk with the selector of a tab pushed before the tab's own segment
RECURSIVE PathUpSelectorFirst(_, _, _)
PathUpSelectorFirst(nav, component, stk) ==
  IF nav = NoNav THEN <<>>
  ELSE LET comp    == IF component = NoComp /\ isNav(nav) /\ stk[nav] # <<>>
                      THEN Top(stk[nav]).comp ELSE component
           segment == serializeComponent(comp)
       IN  IF segment = <<>> THEN <<>>
           ELSE IF isTab(nav)
           THEN <<TabSegment(getTabSelector(TabOf(nav)))>> \o segment
                  \o PathUpSelectorFirst(Parent(Parent(nav)), NoComp, stk)
           ELSE segment \o PathUpSelectorFirst(Parent(nav), NoComp, stk)

\* component is the caller's override, NoComp when there is none; it is
\* cleared once the first segment is made
RECURSIVE PathUp(_, _, _)
PathUp(nav, component, stk) ==
  IF nav = NoNav THEN <<>>
  ELSE LET comp    == IF component = NoComp /\ isNav(nav) /\ stk[nav] # <<>>
                      THEN Top(stk[nav]).comp ELSE component
           segment == serializeComponent(comp)
       IN  IF segment = <<>> THEN <<>>
           ELSE IF isTab(nav)
           THEN segment \o <<TabSegment(getTabSelector(TabOf(nav)))>>
                  \o PathUp(Parent(Parent(nav)), NoComp, stk)
           ELSE segment \o PathUp(Parent(nav), NoComp, stk)

Reverse(q) == [i \in 1..Len(q) |-> q[Len(q) + 1 - i]]

pathFromNavs(nav, component, stk) == Reverse(PathUp(nav, component, stk))

\* --------------------------------------------------------- the Path Loader
\* LoadOptions with a fault: the push asks for a url update
LoadOptionsUpdateUrl == [animate |-> FALSE, updateUrl |-> TRUE]

\* the options of the select, popTo and push of _loadViewFromSegment
LoadOptions == [animate |-> FALSE, updateUrl |-> FALSE]

\* GoToRootOptions with a fault: the reset asks for a url update
GoToRootOptionsUpdateUrl == [updateUrl |-> TRUE, isNavRoot |-> TRUE]

\* the options of the goToRoot of _urlChange
GoToRootOptions == [updateUrl |-> FALSE, isNavRoot |-> TRUE]

\* a transition queued on a nav; done tells whether the loader's continuation
\* is attached, idx is the place in the stack of the view a popTo names
Trans(op, id, comp, idx, updateUrl, done) ==
  [op |-> op, id |-> id, comp |-> comp, idx |-> idx, updateUrl |-> updateUrl, done |-> done]

NavOp(nav, op, id, opts) ==
  [nav |-> nav, op |-> op, id |-> id, updateUrl |-> opts.updateUrl, opts |-> opts]

\* the view a tab loads when it is selected with nothing on its stack
TabRootView(tab) == View(OwnViewId(1), RootPage(tab))

\* Tabs.select(index): the tab of that index becomes the selected one and
\* loads its root page if it has no view yet; no tab of that index, no change
select(index, stk) ==
  IF index + 1 \in 1..Len(TabNavs)
  THEN LET tab == TabNavs[index + 1]
       IN  [stk EXCEPT !["ts"] = <<tab>>,
                       ![tab] = IF @ = <<>> THEN <<TabRootView(tab)>> ELSE @]
  ELSE stk

\* loadViewFromSegment with a fault: a view found below the top is left
\* where it is, nothing is popped
loadViewFromSegmentNoPop(nav, st, stk) ==
  LET i == initNav(nav, st.segments)
  IN  IF i = 0 THEN [st |-> st, sync |-> TRUE]
      ELSE
        LET path    == initNavPath(nav, st.segments)
            segment == path[i]
            stack   == stk[nav]
            hits    == {k \in 1..Len(stack) : stack[k].id = segment.id}
        IN  IF isTabs(nav)
            THEN [st |-> [st EXCEPT
                            !.segments = path,
                            !.ops = Append(@, NavOp(nav, "select", segment.name, LoadOptions)),
                            !.stacks = select(getSelectedTabIndex(tabConf, segment.name, 0), stk)],
                  sync |-> TRUE]
            ELSE IF hits # {}
            THEN [st |-> [st EXCEPT !.segments = path], sync |-> TRUE]
            ELSE [st |-> [st EXCEPT
                            !.segments = path,
                            !.pending[nav] =
                               Append(@, Trans("push", segment.id, segment.comp, 0,
                                               LoadOptions.updateUrl, TRUE)),
                            !.ops = Append(@, NavOp(nav, "push", segment.id, LoadOptions))],
                  sync |-> FALSE]

\* st is [segments, pending, ops, stacks]; stk is the tree as it is when
\* the nav is looked at (st.stacks); the result tells whether done() was
\* called before _loadViewFromSegment returned
loadViewFromSegment(nav, st, stk) ==
  LET i == initNav(nav, st.segments)
  IN  IF i = 0 THEN [st |-> st, sync |-> TRUE]
      ELSE
        LET path    == initNavPath(nav, st.segments)
            segment == path[i]
            stack   == stk[nav]
            hits    == {k \in 1..Len(stack) : stack[k].id = segment.id}
        IN  IF isTabs(nav)
            THEN [st |-> [st EXCEPT
                            !.segments = path,
                            !.ops = Append(@, NavOp(nav, "select", segment.name, LoadOptions)),
                            !.stacks = select(getSelectedTabIndex(tabConf, segment.name, 0), stk)],
                  sync |-> TRUE]
            ELSE IF hits # {}
            THEN IF Max(hits) = Len(stack)
                 THEN [st |-> [st EXCEPT !.segments = path], sync |-> TRUE]
                 ELSE [st |-> [st EXCEPT
                                 !.segments = path,
                                 !.pending[nav] =
                                    Append(@, Trans("popTo", segment.id, NoComp, Max(hits),
                                                    LoadOptions.updateUrl, TRUE)),
                                 !.ops = Append(@, NavOp(nav, "popTo", segment.id, LoadOptions))],
                       sync |-> FALSE]
            ELSE [st |-> [st EXCEPT
                            !.segments = path,
                            !.pending[nav] =
                               Append(@, Trans("push", segment.id, segment.comp, 0,
                                               LoadOptions.updateUrl, TRUE)),
                            !.ops = Append(@, NavOp(nav, "push", segment.id, LoadOptions))],
                  sync |-> FALSE]

\* loadNavFromPath with a fault: the active child is looked at whether or
\* not the nav's own transition has completed
RECURSIVE loadNavFromPathNoWait(_, _, _)
loadNavFromPathNoWait(nav, st, stk) ==
  IF nav = NoNav THEN st
  ELSE LET r == loadViewFromSegment(nav, st, stk)
       IN  loadNavFromPathNoWait(getActiveChildNav(nav, r.st.stacks), r.st, r.st.stacks)

RECURSIVE loadNavFromPath(_, _, _)
loadNavFromPath(nav, st, stk) ==
  IF nav = NoNav THEN st
  ELSE LET r == loadViewFromSegment(nav, st, stk)
       IN  IF r.sync
           THEN loadNavFromPath(getActiveChildNav(nav, r.st.stacks), r.st, r.st.stacks)
           ELSE r.st

\* ------------------------------------------------- the nav hosted by a page
\* A nav runs initNav when it is created: it shows the view of the segment
\* attributed to it, or its root page when there is none.
FirstView(nav, path) ==
  LET i == initNav(nav, path)
  IN  IF i # 0 /\ path[i].comp # NoComp
      THEN View(path[i].id, path[i].comp)
      ELSE View(OwnViewId(1), RootPage(nav))

\* the tab a new tab container selects: the one the segment attributed to
\* the container names, the first tab when there is none
InitialTab(path) ==
  LET i     == initNav("ts", path)
      index == IF i # 0 /\ path[i].comp = NoComp
               THEN getSelectedTabIndex(tabConf, path[i].name, 0)
               ELSE 0
  IN  IF index + 1 \in 1..Len(TabNavs) THEN TabNavs[index + 1] ELSE TabNavs[1]

\* after n0's stack changed from old to new, c being the tree, segments and
\* queues so far: the tab container is created when "q" became the top view,
\* with its selected tab showing its first view, and destroyed with its tabs
\* and what they had queued when "q" stopped being it
TabsSync(old, new, c) ==
  LET had == getActiveChildNav("n0", old) = "ts"
      has == getActiveChildNav("n0", new) = "ts"
  IN  IF has /\ ~had
      THEN LET path == initNavPath("ts", c.segments)
               tab  == InitialTab(c.segments)
           IN  [stacks   |-> [c.stacks EXCEPT !["ts"] = <<tab>>,
                                               ![tab] = <<FirstView(tab, path)>>],
                segments |-> initNavPath(tab, path),
                pending  |-> c.pending]
      ELSE IF had /\ ~has
      THEN [stacks   |-> [c.stacks EXCEPT !["ts"] = <<>>, !["t0"] = <<>>, !["t1"] = <<>>],
            segments |-> c.segments,
            pending  |-> [c.pending EXCEPT !["ts"] = <<>>, !["t0"] = <<>>, !["t1"] = <<>>]]
      ELSE c

\* after n0's stack changed from old to new: n1 is created when "p" became
\* the top view and destroyed, with what it had queued, when "p" stopped
\* being it; the same goes for the tab container and "q"
ChildSync(old, new, path, pend) ==
  LET had == getActiveChildNav("n0", old) = "n1"
      has == getActiveChildNav("n0", new) = "n1"
  IN  TabsSync(old, new,
        IF has /\ ~had
        THEN [stacks   |-> [new EXCEPT !["n1"] = <<FirstView("n1", path)>>],
              segments |-> initNavPath("n1", path),
              pending  |-> pend]
        ELSE IF had /\ ~has
        THEN [stacks   |-> [new EXCEPT !["n1"] = <<>>],
              segments |-> path,
              pending  |-> [pend EXCEPT !["n1"] = <<>>]]
        ELSE [stacks |-> new, segments |-> path, pending |-> pend])

\* ---------------------------------------------------------- _updateLocation
DIRECTION_BACK == "back"
Directions == {"forward", "back", ""}

LocBack == [op |-> "back", url |-> Undefined]
LocGo(url) == [op |-> "go", url |-> url]

\* updateLocation with a fault: a back url is pushed like any other url
updateLocationNoBack(h, alias, computedUrl, direction, path) ==
  LET browserUrl == IF alias = computedUrl THEN <<"/">> ELSE computedUrl
  IN  IF ~isCurrentUrl(h, browserUrl)
      THEN [history |-> historyPush(h, browserUrl), calls |-> <<LocGo(browserUrl)>>,
            branch |-> "go"]
      ELSE [history |-> h, calls |-> <<>>, branch |-> "none"]

\* updateLocation with a fault: the history is pushed, the host is not told
updateLocationNoGo(h, alias, computedUrl, direction, path) ==
  LET browserUrl == IF alias = computedUrl THEN <<"/">> ELSE computedUrl
  IN  IF direction = DIRECTION_BACK /\ isBackUrl(h, browserUrl)
      THEN [history |-> historyPop(h, path), calls |-> <<LocBack>>, branch |-> "back"]
      ELSE IF ~isCurrentUrl(h, browserUrl)
      THEN [history |-> historyPush(h, browserUrl), calls |-> <<>>, branch |-> "go"]
      ELSE [history |-> h, calls |-> <<>>, branch |-> "none"]

\* updateLocation with a fault: the index alias is not replaced by "/"
updateLocationKeepAlias(h, alias, computedUrl, direction, path) ==
  LET browserUrl == computedUrl
  IN  IF direction = DIRECTION_BACK /\ isBackUrl(h, browserUrl)
      THEN [history |-> historyPop(h, path), calls |-> <<LocBack>>, branch |-> "back"]
      ELSE IF ~isCurrentUrl(h, browserUrl)
      THEN [history |-> historyPush(h, browserUrl), calls |-> <<LocGo(browserUrl)>>,
            branch |-> "go"]
      ELSE [history |-> h, calls |-> <<>>, branch |-> "none"]

\* path is what location.path() would return to _historyPop
updateLocation(h, alias, computedUrl, direction, path) ==
  LET browserUrl == IF alias = computedUrl THEN <<"/">> ELSE computedUrl
  IN  IF direction = DIRECTION_BACK /\ isBackUrl(h, browserUrl)
      THEN [history |-> historyPop(h, path), calls |-> <<LocBack>>, branch |-> "back"]
      ELSE IF ~isCurrentUrl(h, browserUrl)
      THEN [history |-> historyPush(h, browserUrl), calls |-> <<LocGo(browserUrl)>>,
            branch |-> "go"]
      ELSE [history |-> h, calls |-> <<>>, branch |-> "none"]

\* navChange(direction) on the tree stk: the new segments, history and the
\* calls made on the location
navChange(direction, up, stk, path0, h, alias, path) ==
  LET activeNav == getActiveNav(up, stk)
  IN  IF direction = "" \/ activeNav = NoNav
      THEN [segments |-> path0, history |-> h, calls |-> <<>>, branch |-> "ignored",
            url |-> Undefined]
      ELSE LET segs == pathFromNavs(activeNav, NoComp, stk)
               url  == serialize(segs)
               r    == updateLocation(h, alias, url, direction, path)
           IN  [segments |-> segs, history |-> r.history, calls |-> r.calls,
                branch |-> r.branch, url |-> url]

Event(op, url, dir, branch) == [op |-> op, url |-> url, dir |-> dir, branch |-> branch]

\* ------------------------------------------------------------------ actions
\* the normalizeUrl harness is off
NormIdle == /\ nIn = <<>> /\ nFirst = <<>> /\ nOut = <<>> /\ nPc = "off"
\* the function harness is off
FnIdle == /\ fnIn = <<>> /\ fnOut = <<>> /\ fnPc = "off"

LinkInit ==
  /\ inited = FALSE
  /\ history = <<>>
  /\ segments = <<>>
  /\ rootUp = FALSE
  /\ stacks = [n \in Navs |-> <<>>]
  /\ pending = [n \in Navs |-> <<>>]
  /\ ev = Event("new", Undefined, "", "none")
  /\ locCalls = <<>>
  /\ navOps = <<>>

\* init(): path is what location.path() returns
InitLinker(path) ==
  /\ ~inited
  /\ LET browserUrl == normalizeUrl(path)
     IN  /\ segments' = parse(browserUrl)
         /\ history' = historyPush(history, browserUrl)
         /\ ev' = Event("init", browserUrl, "", "none")
  /\ inited' = TRUE
  /\ locCalls' = <<>>
  /\ navOps' = <<>>
  /\ UNCHANGED <<indexAliasUrl, tabConf, rootUp, stacks, pending, normVars, fnVars>>

\* the application's root nav is created and runs initNav
NavBoot ==
  /\ inited
  /\ ~rootUp
  /\ rootUp' = TRUE
  /\ LET new == [stacks EXCEPT !["n0"] = <<FirstView("n0", segments)>>]
         r   == ChildSync(stacks, new, initNavPath("n0", segments), pending)
     IN  /\ stacks' = r.stacks
         /\ segments' = r.segments
         /\ pending' = r.pending
  /\ ev' = Event("navBoot", Undefined, "", "none")
  /\ locCalls' = <<>>
  /\ navOps' = <<>>
  /\ UNCHANGED <<inited, history, indexAliasUrl, tabConf, normVars, fnVars>>

\* _urlChange(browserUrl) on the state given: what it leaves behind
urlChange(browserUrl, h, path0, alias, up, stk, pend, path) ==
  IF isCurrentUrl(h, browserUrl)
  THEN [history |-> h, segments |-> path0, pending |-> pend, ops |-> <<>>,
        stacks |-> stk, branch |-> "same"]
  ELSE
    LET back    == isBackUrl(h, browserUrl)
        h2      == IF back THEN historyPop(h, path) ELSE historyPush(h, browserUrl)
        branch  == IF back THEN "back" ELSE "forward"
        appRootNav == getRootNav(up)
    IN  IF appRootNav = NoNav
        THEN [history |-> h2, segments |-> path0, pending |-> pend, ops |-> <<>>,
              stacks |-> stk, branch |-> branch]
        ELSE IF browserUrl = <<"/">> /\ alias = Undefined
        THEN [history  |-> h2,
              segments |-> path0,
              pending  |-> [pend EXCEPT ![appRootNav] =
                 Append(@, Trans("goToRoot", Undefined, NoComp, 0,
                                 GoToRootOptions.updateUrl, FALSE))],
              ops      |-> <<NavOp(appRootNav, "goToRoot", Undefined, GoToRootOptions)>>,
              stacks   |-> stk,
              branch   |-> branch]
        ELSE
          LET url2 == IF browserUrl = <<"/">> THEN alias ELSE browserUrl
              st   == loadNavFromPath(appRootNav,
                        [segments |-> parse(url2), pending |-> pend, ops |-> <<>>,
                         stacks |-> stk], stk)
          IN  [history |-> h2, segments |-> st.segments, pending |-> st.pending,
               ops |-> st.ops, stacks |-> st.stacks, branch |-> branch]

Within(stk, pend, maxStack, maxPending) ==
  /\ PendingTotal(pend) <= maxPending
  /\ \A n \in Navs : Len(stk[n]) + QueuedPushes(pend[n]) <= maxStack

WithinBounds(stk, pend) == Within(stk, pend, MaxStack, MaxPending)

\* the host reports a location change to raw (the subscriber of init()),
\* where the stacks and queues it leaves stay within maxStack and maxPending
LocationChangeWithin(raw, path, maxStack, maxPending) ==
  /\ inited
  /\ LET browserUrl == normalizeUrl(raw)
         r == urlChange(browserUrl, history, segments, indexAliasUrl, rootUp, stacks,
                        pending, path)
     IN  /\ Within(r.stacks, r.pending, maxStack, maxPending)
         /\ history' = r.history
         /\ segments' = r.segments
         /\ pending' = r.pending
         /\ stacks' = r.stacks
         /\ navOps' = r.ops
         /\ ev' = Event("urlChange", browserUrl, "", r.branch)
  /\ locCalls' = <<>>
  /\ UNCHANGED <<inited, indexAliasUrl, tabConf, rootUp, normVars, fnVars>>

LocationChange(raw, path) == LocationChangeWithin(raw, path, MaxStack, MaxPending)

\* a nav reports that its transitions have settled
NavChange(direction, path) ==
  /\ inited
  /\ LET r == navChange(direction, rootUp, stacks, segments, history, indexAliasUrl, path)
     IN  /\ segments' = r.segments
         /\ history' = r.history
         /\ locCalls' = r.calls
         /\ ev' = Event("navChange", r.url, direction, r.branch)
  /\ navOps' = <<>>
  /\ UNCHANGED <<inited, indexAliasUrl, tabConf, rootUp, stacks, pending, normVars, fnVars>>

\* the stack of a nav once the transition op has been carried out
Carry(op, stack) ==
  IF op.op = "push"
  THEN IF op.comp = NoComp THEN stack ELSE Append(stack, View(op.id, op.comp))
  ELSE IF op.op = "popTo"
  THEN IF op.idx <= Len(stack) /\ stack[op.idx].id = op.id
       THEN SubSeq(stack, 1, op.idx) ELSE stack
  ELSE IF stack = <<>> THEN stack ELSE <<stack[1]>>

\* the oldest transition queued on nav completes: the stack changes, a
\* transition that asked for a url update reports to navChange, and the
\* loader's done() goes on with the nav's active child
TransitionDone(nav, path) ==
  /\ pending[nav] # <<>>
  /\ LET op   == Head(pending[nav])
         new  == [stacks EXCEPT ![nav] = Carry(op, stacks[nav])]
         c    == ChildSync(stacks, new, segments, [pending EXCEPT ![nav] = Tail(@)])
         n    == IF op.updateUrl
                 THEN navChange(IF op.op = "push" THEN "forward" ELSE DIRECTION_BACK,
                                rootUp, c.stacks, c.segments, history, indexAliasUrl, path)
                 ELSE [segments |-> c.segments, history |-> history, calls |-> <<>>,
                       branch |-> "none", url |-> Undefined]
         st0  == [segments |-> n.segments, pending |-> c.pending, ops |-> <<>>,
                  stacks |-> c.stacks]
         st   == IF op.done
                 THEN loadNavFromPath(getActiveChildNav(nav, c.stacks), st0, c.stacks)
                 ELSE st0
     IN  /\ stacks' = st.stacks
         /\ segments' = st.segments
         /\ pending' = st.pending
         /\ navOps' = st.ops
         /\ history' = n.history
         /\ locCalls' = n.calls
         /\ ev' = Event("done", Undefined, "", op.op)
  /\ UNCHANGED <<inited, indexAliasUrl, tabConf, rootUp, normVars, fnVars>>

\* the application pushes page comp on nav
AppPush(nav, comp) ==
  /\ rootUp
  /\ nav = getActiveNav(rootUp, stacks) \/ nav = Parent(getActiveNav(rootUp, stacks))
  /\ Len(stacks[nav]) + QueuedPushes(pending[nav]) < MaxStack
  /\ LET new == [stacks EXCEPT ![nav] = Append(@, View(OwnViewId(Len(@) + 1), comp))]
         c   == ChildSync(stacks, new, segments, pending)
     IN  /\ stacks' = c.stacks
         /\ segments' = c.segments
         /\ pending' = c.pending
  /\ ev' = Event("appPush", Undefined, "", "none")
  /\ locCalls' = <<>>
  /\ navOps' = <<>>
  /\ UNCHANGED <<inited, history, indexAliasUrl, tabConf, rootUp, normVars, fnVars>>

\* the user selects the tab of that index
AppSelect(index) ==
  /\ rootUp
  /\ getActiveChildNav("n0", stacks) = "ts"
  /\ getActiveChildNav("ts", stacks) # TabNavs[index + 1]
  /\ stacks' = select(index, stacks)
  /\ ev' = Event("appSelect", Undefined, "", "none")
  /\ locCalls' = <<>>
  /\ navOps' = <<>>
  /\ UNCHANGED <<inited, history, segments, indexAliasUrl, tabConf, rootUp, pending,
                 normVars, fnVars>>

\* the application pops the top view of nav
AppPop(nav) ==
  /\ rootUp
  /\ Len(stacks[nav]) > 1
  /\ LET new == [stacks EXCEPT ![nav] = SubSeq(@, 1, Len(@) - 1)]
         c   == ChildSync(stacks, new, segments, pending)
     IN  /\ stacks' = c.stacks
         /\ segments' = c.segments
         /\ pending' = c.pending
  /\ ev' = Event("appPop", Undefined, "", "none")
  /\ locCalls' = <<>>
  /\ navOps' = <<>>
  /\ UNCHANGED <<inited, history, indexAliasUrl, tabConf, rootUp, normVars, fnVars>>

\* _historyPush(url) and _historyPop() called on their own
HistoryPush(url) ==
  /\ inited
  /\ history' = historyPush(history, url)
  /\ ev' = Event("historyPush", url, "", IF isCurrentUrl(history, url) THEN "same" ELSE "pushed")
  /\ locCalls' = <<>>
  /\ navOps' = <<>>
  /\ UNCHANGED <<inited, segments, indexAliasUrl, tabConf, rootUp, stacks, pending, normVars, fnVars>>

HistoryPop(path) ==
  /\ inited
  /\ history' = historyPop(history, path)
  /\ ev' = Event("historyPop", Undefined, "", IF Len(history) <= 1 THEN "seeded" ELSE "popped")
  /\ locCalls' = <<>>
  /\ navOps' = <<>>
  /\ UNCHANGED <<inited, segments, indexAliasUrl, tabConf, rootUp, stacks, pending, normVars, fnVars>>

\* ----------------------------------------------------------- specifications
UrlA == <<"/", "a">>
UrlB == <<"/", "b">>
UrlP == <<"/", "p">>
UrlPC == <<"/", "p", "/", "c">>

\* what the host reports and what location.path() returns, not yet normalized
RawUrls == {<<"/">>, <<"a", "/">>, <<" ", "/", "p">>, <<"/", "p", "/", "c">>}
Paths == {<<"a">>, <<"p", "/">>}
\* _urlChange and _updateLocation reach _historyPop only when the history
\* holds two entries or more, where location.path() is not read: one value
\* stands for what it would return
SeedPath == <<"/", "a">>

Init ==
  /\ LinkInit
  /\ indexAliasUrl \in {Undefined, UrlA}
  /\ tabConf = PlainTabs
  /\ NormIdle
  /\ FnIdle

Next ==
  \/ \E path \in Paths : InitLinker(path)
  \/ NavBoot
  \/ \E raw \in RawUrls : Len(history) <= MaxHist /\ LocationChange(raw, SeedPath)
  \/ \E d \in Directions : Len(history) <= MaxHist /\ NavChange(d, SeedPath)
  \/ \E nav \in Navs : TransitionDone(nav, SeedPath)
  \/ AppPush("n0", "p")
  \/ AppPush("n1", "c")
  \/ \E nav \in Navs : AppPop(nav)

Spec == Init /\ [][Next]_vars

\* The history on its own: two urls, so that the history can grow past
\* HistoryMax, and _historyPush and _historyPop called directly as well.
HistRawUrls == {<<"a", "/">>, <<"/", "b">>}
HistPaths == {<<"/", "a">>, <<"a", "/">>}

InitHistory ==
  /\ LinkInit
  /\ indexAliasUrl = Undefined
  /\ tabConf = PlainTabs
  /\ NormIdle
  /\ FnIdle

NextHistory ==
  \/ \E path \in HistPaths : InitLinker(path)
  \/ NavBoot
  \/ \E raw \in HistRawUrls : LocationChange(raw, SeedPath)
  \/ \E d \in Directions : NavChange(d, SeedPath)
  \/ TransitionDone("n0", SeedPath)
  \/ \E raw \in HistRawUrls : HistoryPush(normalizeUrl(raw))
  \/ \E path \in HistPaths : HistoryPop(path)

SpecHistory == InitHistory /\ [][NextHistory]_vars

\* ------------------------------------------------------------------ claims
\* C1: after init(), through any sequence of location changes and settled
\* navigations, the history holds at most 30 entries.
C1_HistoryAtMostMax == inited => Len(history) <= HistoryMax

\* the history is full and its oldest entry is one that only a truncation at
\* the oldest end can have brought there
C1_Witness ==
  /\ inited
  /\ Len(history) = HistoryMax
  /\ history[1] = UrlB
  /\ ev.op \in {"urlChange", "navChange"}

\* C2: once init() has run the history is never empty, whatever sequence of
\* _urlChange, navChange, _historyPush and _historyPop follows.
C2_HistoryNeverEmpty == inited => Len(history) >= 1

\* _historyPop emptied the history and seeded it with location.path()
C2_Witness ==
  /\ ev.op = "historyPop"
  /\ ev.branch = "seeded"
  /\ history = <<<<"a", "/">>>>

\* C3: no two adjacent entries of the history are equal.
C3_NoAdjacentEqual ==
  \A i \in 1..(Len(history) - 1) : history[i] # history[i + 1]

\* _historyPush was called with the url that is the top, on a history of
\* more than one entry
C3_Witness ==
  /\ ev.op = "historyPush"
  /\ ev.branch = "same"
  /\ Len(history) >= 2
  /\ ev.url = history[Len(history)]

\* what is left of the history without its top
Popped(h) == SubSeq(h, 1, Len(h) - 1)

\* the history with u appended, the oldest entry dropped past HistoryMax
Pushed(h, u) ==
  IF Len(h) < HistoryMax THEN Append(h, u) ELSE Append(Tail(h), u)

\* C6: on an external location change with normalized url u: when u is the
\* history top nothing changes (history, segments, stacks, queued
\* transitions); otherwise, when u is the second entry from the top, the
\* history loses exactly its top; in every other case u is pushed.
C6_UrlChangeClassifies ==
  [][ev'.op = "urlChange" =>
      LET u == ev'.url
          n == Len(history)
      IN  IF n >= 1 /\ u = history[n]
          THEN /\ history' = history
               /\ segments' = segments
               /\ stacks' = stacks
               /\ pending' = pending
               /\ navOps' = <<>>
          ELSE IF n >= 2 /\ u = history[n - 1]
          THEN history' = Popped(history)
          ELSE history' = Pushed(history, u)]_vars

\* a location change to a new url was pushed on a history of several entries
C6_Witness ==
  /\ ev.op = "urlChange"
  /\ ev.branch = "forward"
  /\ Len(history) >= 3
  /\ history[Len(history)] = ev.url

\* C7, as stated: a location change to the entry below the history top is
\* classified as back, location.back is invoked and the history is popped by one.
C7_BackInvokesNativeBack ==
  [][(/\ ev'.op = "urlChange"
      /\ Len(history) >= 2
      /\ ev'.url = history[Len(history) - 1]
      /\ ev'.url # history[Len(history)])
     => /\ ev'.branch = "back"
        /\ locCalls' = <<LocBack>>
        /\ history' = Popped(history)]_vars

\* C7, amended: a location change to the entry below the history top is
\* classified as back and the history is popped by one; _urlChange makes no
\* call on the host's location (the host has moved already).
C7_BackPopsWithoutNativeBack ==
  [][(/\ ev'.op = "urlChange"
      /\ Len(history) >= 2
      /\ ev'.url = history[Len(history) - 1]
      /\ ev'.url # history[Len(history)])
     => /\ ev'.branch = "back"
        /\ locCalls' = <<>>
        /\ history' = Popped(history)]_vars

\* a location change was taken as back and left the former second entry as top
C7_Witness ==
  /\ ev.op = "urlChange"
  /\ ev.branch = "back"
  /\ Len(history) >= 1
  /\ history[Len(history)] = ev.url

\* C8: from the start of _urlChange to the end of its reconciliation pass no
\* call is made on the host's location, and every select, popTo, push and
\* goToRoot issued carries updateUrl false.
C8_LoadNeverUpdatesLocation ==
  ev.op \in {"urlChange", "done"} =>
    /\ locCalls = <<>>
    /\ \A i \in 1..Len(navOps) : navOps[i].updateUrl = FALSE
    /\ \A n \in Navs : \A i \in 1..Len(pending[n]) : pending[n][i].updateUrl = FALSE

\* a transition of the pass has completed and its continuation has issued an
\* operation on the child nav
C8_Witness ==
  /\ ev.op = "done"
  /\ Len(navOps) = 1
  /\ navOps[1].nav = "n1"

\* the url _updateLocation works with: the index alias stands for "/"
Collapsed(url) == IF url = indexAliasUrl THEN <<"/">> ELSE url

\* C9, as stated: on a settled navigation of direction back whose computed
\* url is the second history entry from the top, location.back is invoked
\* once, location.go is not, nothing is pushed and the history loses its top.
C9_BackOnComputedUrl ==
  [][(/\ ev'.op = "navChange"
      /\ ev'.dir = DIRECTION_BACK
      /\ Len(history) >= 2
      /\ ev'.url = history[Len(history) - 1])
     => /\ locCalls' = <<LocBack>>
        /\ history' = Popped(history)]_vars

\* C9, amended: the same, of the computed url with the index alias replaced
\* by "/".
C9_BackOnCollapsedUrl ==
  [][(/\ ev'.op = "navChange"
      /\ ev'.dir = DIRECTION_BACK
      /\ ev'.url # Undefined
      /\ Len(history) >= 2
      /\ Collapsed(ev'.url) = history[Len(history) - 1])
     => /\ locCalls' = <<LocBack>>
        /\ history' = Popped(history)]_vars

\* a settled back navigation was answered with location.back
C9_Witness ==
  /\ ev.op = "navChange"
  /\ ev.dir = DIRECTION_BACK
  /\ ev.branch = "back"
  /\ locCalls = <<LocBack>>
  /\ history[Len(history)] = Collapsed(ev.url)

\* C10, as stated: on a settled navigation of truthy direction that is not
\* handled as native back, a computed url that differs from the history top
\* is appended and given to location.go once, and one that equals the top
\* leaves history and host alone; from /p, a push settling at /p/c leaves
\* the history <</p, /p/c>>.
C10_GoOnComputedUrl ==
  [][(/\ ev'.op = "navChange"
      /\ ev'.dir # ""
      /\ ev'.url # Undefined
      /\ ~(ev'.dir = DIRECTION_BACK /\ Len(history) >= 2
           /\ Collapsed(ev'.url) = history[Len(history) - 1]))
     => IF ev'.url # HistAt(history, Len(history))
        THEN /\ history' = Pushed(history, ev'.url)
             /\ locCalls' = <<LocGo(ev'.url)>>
        ELSE /\ history' = history
             /\ locCalls' = <<>>]_vars

\* C10, amended: the same, of the computed url with the index alias replaced
\* by "/".
C10_GoOnCollapsedUrl ==
  [][(/\ ev'.op = "navChange"
      /\ ev'.dir # ""
      /\ ev'.url # Undefined
      /\ ~(ev'.dir = DIRECTION_BACK /\ Len(history) >= 2
           /\ Collapsed(ev'.url) = history[Len(history) - 1]))
     => LET u == Collapsed(ev'.url)
        IN  /\ (history = <<UrlP>> /\ u = UrlPC => history' = <<UrlP, UrlPC>>)
            /\ IF u # HistAt(history, Len(history))
               THEN /\ history' = Pushed(history, u)
                    /\ locCalls' = <<LocGo(u)>>
               ELSE /\ history' = history
                    /\ locCalls' = <<>>]_vars

\* from /p a push has settled at /p/c and was given to location.go
C10_Witness ==
  /\ ev.op = "navChange"
  /\ ev.dir = "forward"
  /\ ev.branch = "go"
  /\ ev.url = UrlPC
  /\ locCalls = <<LocGo(UrlPC)>>
  /\ history = <<UrlP, UrlPC>>

\* C11: when the url navChange computes equals the index alias, "/" stands
\* for it before anything is compared or updated: whatever navChange did,
\* the history top is "/" afterwards, a location.go it made was given "/",
\* and the alias itself was not given to location.go.
C11_AliasNeverLeavesNavChange ==
  (/\ ev.op = "navChange"
   /\ indexAliasUrl # Undefined
   /\ ev.url = indexAliasUrl)
  => /\ history[Len(history)] = <<"/">>
     /\ locCalls \in {<<>>, <<LocBack>>, <<LocGo(<<"/">>)>>}
     /\ ev.branch = "go" => locCalls = <<LocGo(<<"/">>)>>

\* navChange computed the alias while the history top was the alias (as
\* init() had pushed it), and went to "/"
C11_Witness ==
  /\ ev.op = "navChange"
  /\ ev.url = indexAliasUrl
  /\ ev.branch = "go"
  /\ Len(history) >= 2
  /\ history[Len(history) - 1] = indexAliasUrl
  /\ history[Len(history)] = <<"/">>

\* the ids of the segments of path, in order
SegmentIds(path) == [i \in 1..Len(path) |-> path[i].id]

\* C12: on an external change to exactly "/" that is not the history top,
\* with a root nav: when no index alias is known the root nav is reset to
\* its root view with updateUrl false, the segments stay as they were ("/"
\* is not parsed) and the loader issues nothing; when an alias is known the
\* alias is parsed in place of "/" and loaded from the root nav.
C12_RootUrlResetsRoot ==
  [][(/\ ev'.op = "urlChange"
      /\ ev'.url = <<"/">>
      /\ ev'.branch # "same"
      /\ rootUp)
     => IF indexAliasUrl = Undefined
        THEN /\ segments' = segments
             /\ stacks' = stacks
             /\ Len(navOps') = 1
             /\ navOps'[1].nav = "n0"
             /\ navOps'[1].op = "goToRoot"
             /\ navOps'[1].updateUrl = FALSE
             /\ pending'["n1"] = pending["n1"]
             /\ Len(pending'["n0"]) = Len(pending["n0"]) + 1
             /\ Top(pending'["n0"]).op = "goToRoot"
             /\ Top(pending'["n0"]).updateUrl = FALSE
             /\ Top(pending'["n0"]).done = FALSE
        ELSE /\ SegmentIds(segments') = SegmentIds(parse(indexAliasUrl))
             /\ segments'[1].navId = "n0"
             /\ \A i \in 1..Len(navOps') : navOps'[i].op # "goToRoot"]_vars

\* a change to "/" with no alias known reset a root nav of two views, and
\* the segments of the page left are still there
C12_Witness ==
  /\ ev.op = "urlChange"
  /\ ev.url = <<"/">>
  /\ indexAliasUrl = Undefined
  /\ Len(navOps) = 1
  /\ navOps[1].op = "goToRoot"
  /\ Len(stacks["n0"]) = 2
  /\ segments # <<>>
  /\ segments[1].id # <<>>

\* the operations the last handler issued on nav, in order
RECURSIVE OpsOn(_, _)
OpsOn(nav, ops) ==
  IF ops = <<>> THEN <<>>
  ELSE (IF Head(ops).nav = nav THEN <<Head(ops)>> ELSE <<>>) \o OpsOn(nav, Tail(ops))

\* what the loader is to issue on nav, a nav or a tab to which the segment
\* path[i] is attributed: nothing when the topmost view of the segment's id
\* is the top of the stack, one popTo when it lies below, one push when no
\* view has that id; without animation and without url update
ExpectedOps(nav, stack, segment) ==
  LET hits == {k \in 1..Len(stack) : stack[k].id = segment.id}
      opts == [animate |-> FALSE, updateUrl |-> FALSE]
  IN  IF hits = {} THEN <<NavOp(nav, "push", segment.id, opts)>>
      ELSE IF Max(hits) = Len(stack) THEN <<>>
      ELSE <<NavOp(nav, "popTo", segment.id, opts)>>

\* the transition the operation op queues on a nav whose stack is stack
ExpectedTrans(op, stack, segment) ==
  IF op.op = "push"
  THEN Trans("push", segment.id, segment.comp, 0, FALSE, TRUE)
  ELSE Trans("popTo", segment.id, NoComp,
             Max({k \in 1..Len(stack) : stack[k].id = segment.id}), FALSE, TRUE)

\* the segments of path that carry nav's id
AttributedTo(nav, path) == {i \in 1..Len(path) : path[i].navId = nav}

\* the pass of _urlChange has looked at nav: the root nav always, its active
\* child when the root nav needed no transition
PassReached(nav) ==
  /\ ev.op = "urlChange"
  /\ ev.branch # "same"
  /\ rootUp
  /\ ~(ev.url = <<"/">> /\ indexAliasUrl = Undefined)
  /\ \/ nav = "n0"
     \/ /\ OpsOn("n0", navOps) = <<>>
        /\ getActiveChildNav("n0", stacks) = nav

\* C18: for a nav or tab with an attributed segment the loader searches the
\* stack from the top for a view of the segment's id and does exactly one
\* of: nothing (the match is the top), one popTo to the match (it lies
\* below the top), one push of the segment's component tagged with the
\* segment's id (no match); each with animate false and updateUrl false.
C18_OneOfNothingPopToPush ==
  \A nav \in Navs : (isNav(nav) /\ AttributedTo(nav, segments) # {}) =>
    LET segment  == segments[Min(AttributedTo(nav, segments))]
        issued   == OpsOn(nav, navOps)
        expected == ExpectedOps(nav, stacks[nav], segment)
    IN  /\ PassReached(nav) => issued = expected
        /\ (ev.op \in {"urlChange", "done"} /\ issued # <<>> /\ issued[1].op # "goToRoot") =>
             /\ issued = expected
             /\ pending[nav] # <<>>
             /\ Top(pending[nav]) = ExpectedTrans(issued[1], stacks[nav], segment)

\* a location change found the view of its segment below the top of the root
\* nav's stack and issued one popTo
C18_Witness ==
  /\ ev.op = "urlChange"
  /\ PassReached("n0")
  /\ Len(navOps) = 1
  /\ navOps[1].op = "popTo"
  /\ navOps[1].nav = "n0"
  /\ Len(stacks["n0"]) = 2
  /\ stacks["n0"][1].id = segments[1].id

\* the last handler was navChange with a direction and an active nav
NavChangeComputed ==
  /\ ev.op = "navChange"
  /\ ev.dir # ""
  /\ ev.url # Undefined

\* the history top is the url of the handler that ran last
TopIsEventUrl ==
  /\ ev.op = "urlChange" =>
       /\ history # <<>>
       /\ history[Len(history)] = ev.url
  /\ NavChangeComputed =>
       /\ history # <<>>
       /\ history[Len(history)] = Collapsed(ev.url)

\* the host reports the url navChange has just given to location.go, or gone
\* back to by location.back, and _urlChange changes nothing
EchoIsNoOp ==
  (/\ NavChangeComputed
   /\ locCalls # <<>>
   /\ ev'.op = "urlChange"
   /\ ev'.url = normalizeUrl(Collapsed(ev.url)))
  => /\ ev'.branch = "same"
     /\ navOps' = <<>>
     /\ UNCHANGED <<history, segments, stacks, pending>>

\* C23: after _urlChange(u) the history top is u, and after navChange with a
\* direction and an active nav the history top is the computed url, "/" in
\* place of the index alias; a location change that reports the url of the
\* location.go or location.back navChange has just issued finds it on top
\* of the history, issues no nav operation and changes nothing.
C23_TopIsEventUrl == [](TopIsEventUrl) /\ [][EchoIsNoOp]_vars

\* navChange has pushed the url it computed on a history of two entries and
\* given it to location.go, the index alias not being involved
C23_Witness ==
  /\ NavChangeComputed
  /\ ev.branch = "go"
  /\ ev.url # indexAliasUrl
  /\ locCalls = <<LocGo(ev.url)>>
  /\ Len(history) = 3
  /\ history[3] = ev.url
  /\ history[2] # ev.url

\* ------------------------------------------------- the tree with its tabs
\* a container whose selectors are "s" and "tab-1", and one whose first tab
\* is titled "Tab 1"
TreeTabConfs ==
  {<<Tab(<<"s">>, Undefined, 0), Tab(Undefined, Undefined, 1)>>,
   <<Tab(Undefined, <<"T", "a", "b", " ", "1">>, 0), Tab(<<"s">>, Undefined, 1)>>}

UrlQSB == <<"/", "q", "/", "s", "/", "b">>
UrlQTabC == <<"/", "q", "/", "t", "a", "b", "-", "1", "/", "c">>

TabRawUrls == {UrlA, UrlQSB, UrlQTabC}
TabPaths == {UrlA, UrlQSB}

InitTabs ==
  /\ LinkInit
  /\ indexAliasUrl = Undefined
  /\ tabConf \in TreeTabConfs
  /\ NormIdle
  /\ FnIdle

NextTabs ==
  \/ \E path \in TabPaths : InitLinker(path)
  \/ NavBoot
  \/ \E raw \in TabRawUrls : Len(history) <= MaxHist /\ LocationChange(raw, SeedPath)
  \/ \E d \in {"forward", DIRECTION_BACK} : Len(history) <= MaxHist /\ NavChange(d, SeedPath)
  \/ \E nav \in Navs : TransitionDone(nav, SeedPath)
  \/ \E index \in {0, 1} : AppSelect(index)

SpecTabs == InitTabs /\ [][NextTabs]_vars

\* the selected tab of the tab container, NoNav when there is none
SelectedTab(stk) == getActiveChildNav("ts", stk)

\* the path built from the active nav, loaded again from the root nav
Reloaded ==
  loadNavFromPath(getRootNav(rootUp),
    [segments |-> pathFromNavs(getActiveNav(rootUp, stacks), NoComp, stacks),
     pending  |-> pending,
     ops      |-> <<>>,
     stacks   |-> stacks],
    stacks)

\* C13: on a tree at rest, the segments _pathFromNavs builds from the active
\* nav, given to _loadNavFromPath from the root nav, issue no push and no
\* popTo and leave every stack and the selected tab as they were.
C13_BuildThenLoadChangesNothing ==
  (rootUp /\ PendingTotal(pending) = 0) =>
    /\ \A i \in 1..Len(Reloaded.ops) : Reloaded.ops[i].op \notin {"push", "popTo"}
    /\ Reloaded.pending = pending
    /\ Reloaded.stacks = stacks
    /\ SelectedTab(Reloaded.stacks) = SelectedTab(stacks)

\* ------------------------------------------------------ one pass at a time
PassRawUrls == {UrlA, UrlQSB, UrlQTabC, UrlPC}

\* a location change arrives only when no transition is pending
NextPass ==
  \/ \E path \in TabPaths : InitLinker(path)
  \/ NavBoot
  \/ \E raw \in PassRawUrls :
       /\ Len(history) <= MaxHist
       /\ PendingTotal(pending) = 0
       /\ LocationChange(raw, SeedPath)
  \/ \E d \in {"forward", DIRECTION_BACK} : Len(history) <= MaxHist /\ NavChange(d, SeedPath)
  \/ \E nav \in Navs : TransitionDone(nav, SeedPath)
  \/ \E index \in {0, 1} : AppSelect(index)

SpecPass == InitTabs /\ [][NextPass]_vars

\* the transitions queued on nav to which the loader's done is attached
LoaderPending(nav) == {k \in 1..Len(pending[nav]) : pending[nav][k].done}

\* C20: within one pass the controllers are taken top-down along the chain
\* of active children: a segment is attributed to a child, and the child is
\* reconciled, only once the segment before carries the id of the child's
\* parent and the parent's own select, popTo or push has completed.
C20_ChildAfterParent ==
  \A child \in Navs : Parent(child) # NoNav =>
    /\ \A i \in AttributedTo(child, segments) :
         i >= 2 /\ segments[i - 1].navId = Parent(child)
    /\ (AttributedTo(child, segments) # {} \/ LoaderPending(child) # {}) =>
         LoaderPending(Parent(child)) = {}

\* the push of the tabs page on the root nav has completed, and only then
\* was the tab container given its segment and its select
C20_Witness ==
  /\ ev.op = "done"
  /\ ev.branch = "push"
  /\ Len(navOps) >= 1
  /\ navOps[1].nav = "ts"
  /\ navOps[1].op = "select"
  /\ pending["n0"] = <<>>
  /\ Len(segments) = 3
  /\ segments[1].navId = "n0"
  /\ segments[2].navId = "ts"

\* ------------------------------------------- location changes that overlap
\* room for one more queued transition, and one more view, than elsewhere:
\* a location change may arrive while the pass before has a push pending
OverlapPending == MaxPending + 1
OverlapStack == MaxStack + 1
OverlapHist == MaxHist + 1

InitOverlap ==
  /\ LinkInit
  /\ indexAliasUrl = Undefined
  /\ tabConf = PlainTabs
  /\ NormIdle
  /\ FnIdle

NextOverlap ==
  \/ \E path \in Paths : InitLinker(path)
  \/ NavBoot
  \/ \E raw \in RawUrls :
       /\ Len(history) <= OverlapHist
       /\ LocationChangeWithin(raw, SeedPath, OverlapStack, OverlapPending)
  \/ \E nav \in Navs : TransitionDone(nav, SeedPath)

SpecOverlap == InitOverlap /\ [][NextOverlap]_vars

\* C15: in every state reached through location changes and their passes,
\* the views of a stack have pairwise distinct ids, also when a location
\* change arrives while an earlier pass has a push or popTo pending.
C15_ViewIdsUnique ==
  \A n \in Navs : isNav(n) =>
    \A i, j \in 1..Len(stacks[n]) : i # j => stacks[n][i].id # stacks[n][j].id

\* ------------------------------------- component lookup and initViews
\* a link of the serializer: component and loadChildren are NoComp when the
\* link has none
NavLink(name, component, loadChildren) ==
  [name |-> name, component |-> component, loadChildren |-> loadChildren]

\* the outcome of a call: a promise resolved or rejected, or an exception
\* thrown before any promise is returned; links and segment are the links
\* and the segment as the call leaves them
Outcome(kind, value, links, segment) ==
  [kind |-> kind, value |-> value, links |-> links, segment |-> segment]

\* UrlSerializer.getLinkFromName: <<link>>, or <<>> for null
getLinkFromName(links, name) ==
  IF name \in DOMAIN links THEN <<links[name]>> ELSE <<>>

\* what ModuleLoader.load(loadChildren) resolves to
LoadedComponent(loadChildren) == [component |-> IF loadChildren = "m" THEN "M" ELSE NoComp]

\* link is <<link>> or <<>>; reading a field of null throws
getNavLinkComponent(links, link, segment) ==
  IF link = <<>>
  THEN Outcome("thrown", "TypeError", links, segment)
  ELSE IF link[1].component # NoComp
  THEN Outcome("resolved", link[1].component, links, segment)
  ELSE IF link[1].loadChildren # NoComp
  THEN LET response == LoadedComponent(link[1].loadChildren)
       IN  Outcome("resolved", response.component,
                   [links EXCEPT ![link[1].name].component = response.component], segment)
  ELSE Outcome("rejected", "invalid link component", links, segment)

getComponentFromName(links, componentName, segment) ==
  LET link == getLinkFromName(links, componentName)
  IN  IF link # <<>>
      THEN getNavLinkComponent(links, link, segment)
      ELSE Outcome("rejected", "invalid link", links, segment)

ViewController(component, data, id) == [id |-> id, comp |-> component, data |-> data]

\* nav-util convertToViews on a list of names: one view per name, each
\* looked up with getComponentFromName; the first failure rejects the whole
RECURSIVE convertToViews(_, _, _)
convertToViews(links, pages, segment) ==
  IF pages = <<>> THEN Outcome("resolved", <<>>, links, segment)
  ELSE LET r == getComponentFromName(links, Head(pages), segment)
       IN  IF r.kind # "resolved" THEN r
           ELSE LET rest == convertToViews(r.links, Tail(pages), segment)
                IN  IF rest.kind # "resolved" THEN rest
                    ELSE [rest EXCEPT !.value =
                            <<ViewController(r.value, NoComp, Undefined)>> \o @]

isArray(val) == val # Undefined

\* initViews with a fault: the deep-linked view is put first
initViewsDeepFirst(links, segment) ==
  LET link == getLinkFromName(links, segment.name)
      r    == getNavLinkComponent(links, link, segment)
  IN  IF r.kind # "resolved" THEN r
      ELSE LET seg2 == [segment EXCEPT !.component = r.value]
               view == ViewController(r.value, segment.data, segment.id)
           IN  IF isArray(segment.defaultHistory)
               THEN LET c == convertToViews(r.links, segment.defaultHistory, seg2)
                    IN  IF c.kind # "resolved" THEN c
                        ELSE [c EXCEPT !.value = <<view>> \o @]
               ELSE Outcome("resolved", <<view>>, r.links, seg2)

initViews(links, segment) ==
  LET link == getLinkFromName(links, segment.name)
      r    == getNavLinkComponent(links, link, segment)
  IN  IF r.kind # "resolved" THEN r
      ELSE LET seg2 == [segment EXCEPT !.component = r.value]
               view == ViewController(r.value, segment.data, segment.id)
           IN  IF isArray(segment.defaultHistory)
               THEN LET c == convertToViews(r.links, segment.defaultHistory, seg2)
                    IN  IF c.kind # "resolved" THEN c
                        ELSE [c EXCEPT !.value = Append(@, view)]
               ELSE Outcome("resolved", <<view>>, r.links, seg2)

\* the links registered: "a" has its component, "l" is loaded on demand (and
\* may have been loaded already), "x" has neither; no link is named "u"
Registries ==
  {[a |-> NavLink("a", "A", NoComp),
    l |-> NavLink("l", c, "m"),
    x |-> NavLink("x", NoComp, NoComp)] : c \in {NoComp, "M"}}

LinkNames == {"a", "l", "x", "u"}
DefaultHistories == {Undefined, <<>>, <<"a">>, <<"l", "a">>, <<"a", "u">>, <<"x">>}

\* a segment as the serializer makes it, its component not resolved yet
ViewSegments ==
  {[id |-> <<n, "1">>, name |-> n, component |-> NoComp, data |-> d, defaultHistory |-> h,
    navId |-> NoNav] : n \in LinkNames, d \in {NoComp, "d"}, h \in DefaultHistories}

ViewCalls ==
  {[fn |-> "getComponentFromName", arg |-> n, links |-> reg] :
     n \in LinkNames, reg \in Registries}
  \cup {[fn |-> "getNavLinkComponent", arg |-> reg[n], links |-> reg] :
     n \in LinkNames \ {"u"}, reg \in Registries}
  \cup {[fn |-> "initViews", arg |-> seg, links |-> reg] :
     seg \in ViewSegments, reg \in Registries}

InitViews ==
  /\ LinkInit
  /\ indexAliasUrl = Undefined
  /\ tabConf = PlainTabs
  /\ NormIdle
  /\ fnIn \in ViewCalls
  /\ fnOut = <<>>
  /\ fnPc = "call"

ApplyGetComponentFromName ==
  /\ fnPc = "call"
  /\ fnIn.fn = "getComponentFromName"
  /\ fnOut' = getComponentFromName(fnIn.links, fnIn.arg, <<>>)
  /\ fnPc' = "returned"
  /\ UNCHANGED <<fnIn, linkVars, normVars>>

ApplyGetNavLinkComponent ==
  /\ fnPc = "call"
  /\ fnIn.fn = "getNavLinkComponent"
  /\ fnOut' = getNavLinkComponent(fnIn.links, <<fnIn.arg>>, <<>>)
  /\ fnPc' = "returned"
  /\ UNCHANGED <<fnIn, linkVars, normVars>>

ApplyInitViews ==
  /\ fnPc = "call"
  /\ fnIn.fn = "initViews"
  /\ fnOut' = initViews(fnIn.links, fnIn.arg)
  /\ fnPc' = "returned"
  /\ UNCHANGED <<fnIn, linkVars, normVars>>

NextViews == ApplyGetComponentFromName \/ ApplyGetNavLinkComponent \/ ApplyInitViews

SpecViews == InitViews /\ [][NextViews]_vars

\* the name has a link that has a component or can load one
Resolvable(links, name) ==
  /\ name \in DOMAIN links
  /\ links[name].component # NoComp \/ links[name].loadChildren # NoComp

\* the component the link of that name stands for
ComponentNamed(name) == IF name = "a" THEN "A" ELSE "M"

\* C16: for a segment with a defaultHistory list, initViews resolves to one
\* view per defaultHistory name, in the declared order, followed by the
\* deep-linked view, which carries the segment's id and data, as the last;
\* without defaultHistory it resolves to the deep-linked view alone.
C16_InitViewsOrder ==
  (/\ fnPc = "returned"
   /\ fnIn.fn = "initViews"
   /\ Resolvable(fnIn.links, fnIn.arg.name)
   /\ isArray(fnIn.arg.defaultHistory) =>
        \A i \in 1..Len(fnIn.arg.defaultHistory) :
          Resolvable(fnIn.links, fnIn.arg.defaultHistory[i]))
  => LET segment == fnIn.arg
         names   == IF isArray(segment.defaultHistory) THEN segment.defaultHistory ELSE <<>>
         views   == fnOut.value
     IN  /\ fnOut.kind = "resolved"
         /\ Len(views) = Len(names) + 1
         /\ \A i \in 1..Len(names) : views[i].comp = ComponentNamed(names[i])
         /\ views[Len(views)] =
              ViewController(ComponentNamed(segment.name), segment.data, segment.id)
         /\ \A i \in 1..Len(names) : views[i].id # segment.id

\* initViews resolved a segment with two defaultHistory names, the first of
\* them loaded on demand
C16_Witness ==
  /\ fnPc = "returned"
  /\ fnIn.fn = "initViews"
  /\ fnIn.arg.defaultHistory = <<"l", "a">>
  /\ fnIn.links["l"].component = NoComp
  /\ fnOut.kind = "resolved"
  /\ Len(fnOut.value) = 3
  /\ fnOut.value[1].comp = "M"

\* the lookup the call starts with fails: no link of that name, or a link
\* with neither component nor loadChildren
LookupFails ==
  IF fnIn.fn = "getNavLinkComponent"
  THEN fnIn.arg.component = NoComp /\ fnIn.arg.loadChildren = NoComp
  ELSE LET name == IF fnIn.fn = "initViews" THEN fnIn.arg.name ELSE fnIn.arg
       IN  ~Resolvable(fnIn.links, name)

\* C17: a lookup that fails in getComponentFromName, getNavLinkComponent or
\* initViews gives a rejected promise, never an exception thrown by the
\* call and never a resolved value, and leaves the links and the segment
\* as they were.
C17_LookupFailureRejects ==
  (fnPc = "returned" /\ LookupFails) =>
    /\ fnOut.kind = "rejected"
    /\ fnOut.links = fnIn.links
    /\ fnIn.fn = "initViews" => fnOut.segment = fnIn.arg

\* ------------------------------------------------------ initNav, on its own
\* the paths of up to n segments whose navId is unset or names n0 or ts
RECURSIVE NavPathsUpTo(_)
NavPathsUpTo(n) ==
  IF n = 0 THEN {<<>>}
  ELSE LET shorter == NavPathsUpTo(n - 1)
       IN  shorter \cup
           {Append(path, [Segment(<<"a">>) EXCEPT !.navId = id]) :
              path \in {q \in shorter : Len(q) = n - 1}, id \in {NoNav, "n0", "ts"}}

InitInitNav ==
  /\ LinkInit
  /\ indexAliasUrl = Undefined
  /\ tabConf = PlainTabs
  /\ NormIdle
  /\ fnIn \in {[nav |-> nav, path |-> path] :
                 nav \in {"n0", "n1", "ts", "t0"}, path \in NavPathsUpTo(MaxLen)}
  /\ fnOut = <<>>
  /\ fnPc = "call"

ApplyInitNav ==
  /\ fnPc = "call"
  /\ fnOut' = [index |-> initNav(fnIn.nav, fnIn.path),
               path  |-> initNavPath(fnIn.nav, fnIn.path)]
  /\ fnPc' = "initNav"
  /\ UNCHANGED <<fnIn, linkVars, normVars>>

NextInitNav == ApplyInitNav

SpecInitNav == InitInitNav /\ [][NextInitNav]_vars

\* C19: initNav attributes to a controller without parent the first segment
\* of a non-empty sequence; to any other controller the segment of the
\* smallest index i, not the first, whose predecessor carries the navId of
\* the controller's parent; the attributed segment's navId becomes the
\* controller's id; when there is no such segment, or the sequence is empty,
\* the result is null (0 here) and no navId changes.
C19_InitNavAttribution ==
  fnPc = "initNav" =>
    LET nav  == fnIn.nav
        path == fnIn.path
        i    == fnOut.index
        fits(j) == j >= 2 /\ j <= Len(path) /\ path[j - 1].navId = Parent(nav)
    IN  /\ path = <<>> => i = 0
        /\ (Parent(nav) = NoNav /\ path # <<>>) => i = 1
        /\ Parent(nav) # NoNav =>
             /\ i # 0 => fits(i) /\ \A j \in 1..(i - 1) : ~fits(j)
             /\ i = 0 => \A j \in 1..Len(path) : ~fits(j)
        /\ i # 0 => fnOut.path = [path EXCEPT ![i].navId = nav]
        /\ i = 0 => fnOut.path = path

\* two segments fit a child controller and the earlier one was attributed
C19_Witness ==
  /\ fnPc = "initNav"
  /\ fnIn.nav = "n1"
  /\ Len(fnIn.path) = 3
  /\ fnIn.path[1].navId = "n0"
  /\ fnIn.path[2].navId = "n0"
  /\ fnOut.index = 2
  /\ fnOut.path[2].navId = "n1"
  /\ fnOut.path[3].navId = NoNav

\* the navs from nav down along the active children
RECURSIVE ActiveChain(_, _)
ActiveChain(nav, stk) ==
  IF nav = NoNav THEN {} ELSE {nav} \cup ActiveChain(getActiveChildNav(nav, stk), stk)

\* C21: when location changes have overlapped and every pending completion
\* has fired, each nav on the chain of active children to which a segment of
\* the latest url is attributed has the view of that segment's id on top.
C21_ConvergesAfterOverlap ==
  (/\ rootUp
   /\ ev.op \in {"urlChange", "done"}
   /\ PendingTotal(pending) = 0
   /\ SegmentIds(segments) = SegmentIds(parse(history[Len(history)])))
  => \A nav \in ActiveChain("n0", stacks) :
       (isNav(nav) /\ AttributedTo(nav, segments) # {}) =>
         /\ stacks[nav] # <<>>
         /\ Top(stacks[nav]).id = segments[Min(AttributedTo(nav, segments))].id

\* ------------------------------------------- _pathFromNavs, on the tree
\* the navs and tabs _pathFromNavs can start from: those displayed now
StartNavs(stk) == {nav \in ActiveChain("n0", stk) : isNav(nav) /\ stk[nav] # <<>>}

\* _pathFromNavs is called for a displayed nav or tab, with or without a
\* component of the caller's; the tree then stays as it is
ApplyPathFromNavs(nav, component) ==
  /\ fnPc = "off"
  /\ rootUp
  /\ nav \in StartNavs(stacks)
  /\ fnIn' = [nav |-> nav, component |-> component]
  /\ fnOut' = pathFromNavs(nav, component, stacks)
  /\ fnPc' = "pathFromNavs"
  /\ UNCHANGED <<linkVars, normVars>>

NextPath ==
  \/ \E path \in TabPaths : fnPc = "off" /\ InitLinker(path)
  \/ fnPc = "off" /\ NavBoot
  \/ \E raw \in PassRawUrls :
       /\ fnPc = "off"
       /\ Len(history) <= MaxHist
       /\ LocationChange(raw, SeedPath)
  \/ \E nav \in Navs : fnPc = "off" /\ TransitionDone(nav, SeedPath)
  \/ \E index \in {0, 1} : fnPc = "off" /\ AppSelect(index)
  \/ \E nav \in Navs, component \in Links \cup {NoComp} : ApplyPathFromNavs(nav, component)

SpecPath == InitTabs /\ [][NextPath]_vars

\* the nav or tab above nav on the ancestor chain, the tab container left out
Above(nav) == IF isTab(nav) THEN Parent(Parent(nav)) ELSE Parent(nav)

\* the component of the view nav shows
Shown(nav) == Top(stacks[nav]).comp

\* C22: the output of _pathFromNavs runs from the root nav's segment (the
\* first) to the starting controller's segment (the last); when the starting
\* controller is a tab, a segment with no component whose id and name are the
\* tab's selector stands immediately before the tab's own segment, and the
\* tab container has no segment; a component given by the caller makes the
\* starting controller's segment only, every ancestor's segment is made of
\* the view the ancestor shows.
C22_PathRootToLeaf ==
  fnPc = "pathFromNavs" =>
    LET nav      == fnIn.nav
        own      == IF fnIn.component # NoComp THEN fnIn.component ELSE Shown(nav)
        selector == getTabSelector(TabOf(nav))
        n        == Len(fnOut)
    IN  /\ n = (IF nav = "n0" THEN 1 ELSE IF isTab(nav) THEN 3 ELSE 2)
        /\ fnOut[n] = Segment(<<own>>)
        /\ nav # "n0" =>
             /\ Above(nav) = "n0"
             /\ fnOut[1] = Segment(<<Shown("n0")>>)
        /\ isTab(nav) =>
             /\ fnOut[n - 1].id = selector
             /\ fnOut[n - 1].name = selector
             /\ fnOut[n - 1].comp = NoComp
             /\ \A i \in 1..n : i # n - 1 => fnOut[i].comp # NoComp

\* the path of a tab was built with a component that is neither the one the
\* tab shows nor the one the root nav shows
C22_Witness ==
  /\ fnPc = "pathFromNavs"
  /\ isTab(fnIn.nav)
  /\ fnIn.component # NoComp
  /\ fnIn.component # Shown(fnIn.nav)
  /\ fnIn.component # Shown("n0")
  /\ Len(fnOut) = 3
  /\ fnOut[3].comp = fnIn.component

\* --------------------------------------------- tab selectors, on their own
TabUrlPaths == {Undefined, <<"s">>, <<"t", "a", "b", "-", "1">>}
TabTitles == {Undefined, <<"T", "a", "b", " ", "1">>, <<"s", " ", "t">>}

\* the names a tab answers to
TabNames(tab) ==
  {tab.tabUrlPath, IF isPresent(tab.tabTitle) THEN formatUrlPart(tab.tabTitle) ELSE Undefined}
    \ {Undefined}

\* the tab containers of two tabs that share no name
TabConfs ==
  {tabs \in {<<Tab(u0, t0, 0), Tab(u1, t1, 1)>> :
               u0 \in TabUrlPaths, t0 \in TabTitles, u1 \in TabUrlPaths, t1 \in TabTitles} :
     TabNames(tabs[1]) \cap TabNames(tabs[2]) = {}}

InitTabSel ==
  /\ LinkInit
  /\ indexAliasUrl = Undefined
  /\ NormIdle
  /\ tabConf \in TabConfs
  /\ fnIn = <<>>
  /\ fnOut = <<>>
  /\ fnPc = "tabs"

\* the selector _getTabSelector builds for tab is given to getSelectedTabIndex
TabRoundTrip(tab) ==
  /\ fnPc = "tabs"
  /\ fnIn' = tab
  /\ LET selector == getTabSelector(tab)
     IN  fnOut' = [selector |-> selector,
                   index    |-> getSelectedTabIndex(tabConf, selector, 0)]
  /\ fnPc' = "getSelectedTabIndex"
  /\ UNCHANGED <<linkVars, normVars>>

NextTabSel == \E i \in 1..Len(tabConf) : TabRoundTrip(tabConf[i])

SpecTabSel == InitTabSel /\ [][NextTabSel]_vars

\* C14: for every tab t of a tab container, the selector _getTabSelector
\* builds for t (tabUrlPath, else the formatted tabTitle, else tab-<index>),
\* given to getSelectedTabIndex on the same container, returns t.index; a
\* name that is t's tabUrlPath selects t and not the tab at some position.
C14_TabSelectorRoundTrip ==
  fnPc = "getSelectedTabIndex" =>
    /\ fnOut.index = fnIn.index
    /\ isPresent(fnIn.tabUrlPath) =>
         /\ fnOut.selector = fnIn.tabUrlPath
         /\ fnOut.index + 1 \in 1..Len(tabConf)
         /\ tabConf[fnOut.index + 1].tabUrlPath = fnOut.selector

\* ------------------------------------------------- normalizeUrl, on its own
InitNorm ==
  /\ LinkInit
  /\ indexAliasUrl = Undefined
  /\ tabConf = PlainTabs
  /\ FnIdle
  /\ nIn \in StringsUpTo(MaxLen)
  /\ nFirst = <<>>
  /\ nOut = <<>>
  /\ nPc = "in"

NormApply ==
  /\ nPc = "in"
  /\ nFirst' = normalizeUrl(nIn)
  /\ nOut' = normalizeUrl(nIn)
  /\ nPc' = "once"
  /\ UNCHANGED <<nIn, linkVars, fnVars>>

NormAgain ==
  /\ nPc = "once"
  /\ nOut' = normalizeUrl(nOut)
  /\ nPc' = "twice"
  /\ UNCHANGED <<nIn, nFirst, linkVars, fnVars>>

NextNorm == NormApply \/ NormAgain

SpecNorm == InitNorm /\ [][NextNorm]_vars

\* C4: normalizeUrl is idempotent, normalizeUrl(normalizeUrl(u)) = normalizeUrl(u)
\* for every string u, and "" gives "/", "/a/" gives "/a", "a" gives "/a".
C4_NormalizeIdempotent ==
  /\ nPc = "twice" => nOut = nFirst
  /\ (nPc = "once" /\ nIn = <<>>) => nOut = <<"/">>
  /\ (nPc = "once" /\ nIn = <<"/", "a", "/">>) => nOut = <<"/", "a">>
  /\ (nPc = "once" /\ nIn = <<"a">>) => nOut = <<"/", "a">>

\* C5: the result of normalizeUrl starts with exactly one "/" and does not end
\* with "/" unless it is exactly "/".
C5_NormalizeShape ==
  nPc = "once" =>
    /\ Len(nOut) >= 1 /\ nOut[1] = "/"
    /\ (Len(nOut) >= 2 => nOut[2] # "/")
    /\ (nOut[Len(nOut)] = "/" => nOut = <<"/">>)

====
